---- MODULE Spec2Model ----
(***************************************************************************)
(* FASTSIM-PRO v4 (src/file.user.js): the microtask batch drainer, the     *)
(* hybrid per-item processing, the discovery feed, the dynamic core        *)
(* balancer and the stop control, as a state machine.                      *)
(*                                                                         *)
(* The script is single threaded.  One action is one run-to-completion     *)
(* span of the code: a timer callback, a microtask, an observer callback   *)
(* or an API call.  An async processOneHybrid call is split at its only    *)
(* suspension point, the zero-delay yield of the stepping loop (line 223). *)
(* Collaborator calls on a video (readyState, duration, currentTime, the   *)
(* __fsim_done write) are environment inputs: each call may return any of  *)
(* its outcomes, a thrown error included.  Errors of calls that the code   *)
(* wraps in an empty try/catch of their own (mute, pause, dispatchEvent,   *)
(* cleanupVideoResources, showToast) change no state and are not           *)
(* enumerated.  state.skipStep and state.batchDelay are written by the     *)
(* balancer but never decide a branch (the step is always far larger than  *)
(* any remaining duration), so they are not carried.  Page code that a     *)
(* dispatched event could run inside a span is not modelled.  A latency    *)
(* sample carries its age instead of its timestamp, and the two bootstrap  *)
(* intervals are callbacks that may fire at any time after the bootstrap.  *)
(* Timer callbacks are tasks of the event loop: one starts only when the   *)
(* microtask queue (scheduled activations, .finally callbacks) is empty.   *)
(* Observer callbacks are microtasks, and stop() may be called from one.   *)
(*                                                                         *)
(* Spec starts at script load.  WarmSpec starts later in a run, with both  *)
(* items queued and one latency sample retained; FairQuietSpec is the same *)
(* stretch on a page that adds no video, with the fairness of the event    *)
(* loop; CtlSpec adds status() calls and spans that measured 0 ms.  In     *)
(* these a video is either of any behaviour, each call on it returning any *)
(* of its outcomes, or "endless": never ready, its duration never finite   *)
(* and positive, no call on it throwing.                                   *)
(***************************************************************************)
EXTENDS Integers, Sequences, FiniteSets, TLC

\* ---- bounds of the model --------------------------------------------------
Items == {"v1", "v2"}          \* the video elements that can appear
WorkMs == {3, 30}              \* measured durations (ms): a fast and a slow span
MaxHW == 1                     \* hardwareConcurrency is in 0..MaxHW (0: absent)
MaxPushes == 2                 \* total queue.push calls of a run
MaxSamples == 2                \* retained latency samples
TickMs == 2500                 \* Date.now() advances in steps of this many ms

\* ---- CONF (lines 11-28) ---------------------------------------------------
concurrencyMin == 1
concurrencyInit == 3
adaptWindowMs == 2000
adaptTargetWorkMs == 12

VARIABLES
  concurrencyMax,      \* CONF.concurrencyMax, computed once at line 13
  booted,              \* the bootstrap section (lines 347-354) has run
  running, concurrency, queue, processingCount, doneCount, seenCount,
  readySuccess, readyFailure, lastWorkSamples, observer, healTimer,
  taskScheduled,       \* the fields of `state` (lines 31-47)
  pendingDrains,       \* drainTaskBatch microtasks queued and not yet run
  fsim_done,           \* video.__fsim_done, per item
  nearEnd,             \* per item: duration - currentTime <= 0.5
  yielded,             \* per item: processOneHybrid calls suspended at line 223
  settled,             \* per item: settled calls whose .finally callback is queued
  launchCount,         \* history: processOneHybrid calls made, per item (line 151)
  doneIncs,            \* history: state.doneCount++ executed, per item (line 228)
  pushes,              \* history: queue.push calls (line 253)
  skippedDone,         \* history: done items discarded by the drain loop (line 147)
  rediscovered,        \* history: enqueueNewVideos has met a done item (line 251)
  lastPath,            \* history, per item: the branches of its latest call,
                       \* kept until a .finally callback of the item runs
  shape,               \* per item: how the video answers the calls on it
  statusRead           \* the samples the latest status() call averaged (line 327)

vars == <<concurrencyMax, booted, running, concurrency, queue,
          processingCount, doneCount, seenCount, readySuccess, readyFailure,
          lastWorkSamples, observer, healTimer, taskScheduled, pendingDrains,
          fsim_done, nearEnd, yielded, settled, launchCount, doneIncs, pushes,
          skippedDone, rediscovered, lastPath, shape, statusRead>>

\* the branches of one processOneHybrid call: its instant attempt raised (line 196),
\* it entered the stepping loop (line 206)
NoPath == [instantFailed |-> FALSE, loop |-> FALSE]

\* ---- helpers --------------------------------------------------------------
Min(a, b) == IF a < b THEN a ELSE b
Max(a, b) == IF a > b THEN a ELSE b
Range(s) == {s[k] : k \in 1..Len(s)}

RECURSIVE SumMs(_)
SumMs(s) == IF s = <<>> THEN 0 ELSE s[1].ms + SumMs(Tail(s))

\* Math.max(2, hc ? Math.min(8, hc) : 4), line 13; hc = 0 stands for an absent value
concurrencyMaxOf(hc) == Max(2, IF hc # 0 THEN Min(8, hc) ELSE 4)

\* How a video answers.  "any": each call on it may take any of its outcomes.
\* "endless": readyState stays below the threshold, duration stays unknown
\* (non-finite or <= 0), and no read or position write on it raises.
Shapes == {"any", "endless"}

\* findVideos(document): the videos now in the document, each once, in document order
DocumentOrders == {s \in UNION {[1..n -> Items] : n \in 0..Cardinality(Items)} :
                     \A j, k \in 1..Len(s) : j # k => s[j] # s[k]}

\* push {t: Date.now(), ms} and keep only the window (lines 164-167, 238-241).
\* The code compares timestamps only with the current time, so a sample carries
\* its age, Date.now() - s.t, in place of s.t: s.t >= cutoff is age <= adaptWindowMs.
PushSample(samples, ms) ==
  SelectSeq(Append(samples, [age |-> 0, ms |-> ms]), LAMBDA s : s.age <= adaptWindowMs)

\* the predictor left out of line 181: preferInstant = ready
preferInstantRate_always(rs, rf) == TRUE

\* (readySuccess + 1) / (readySuccess + readyFailure + 2) > 0.4, lines 180-181
preferInstantRate(rs, rf) == 5 * (rs + 1) > 2 * (rs + rf + 2)

\* ---- Dynamic Core Balancer (lines 262-283), the concurrency it leaves ------
\* arr = lastWorkSamples.map(s => s.ms).filter(Boolean): zero samples are dropped
adaptArr(samples) == SelectSeq(samples, LAMBDA s : s.ms # 0)

\* avg < adaptTargetWorkMs, with avg = sum/length, or 0 for an empty arr
avgBelowTarget(samples) ==
  LET arr == adaptArr(samples)
  IN  IF Len(arr) = 0 THEN 0 < adaptTargetWorkMs
      ELSE SumMs(arr) < adaptTargetWorkMs * Len(arr)

\* avg > adaptTargetWorkMs * 1.8
avgAboveBand(samples) ==
  LET arr == adaptArr(samples)
  IN  IF Len(arr) = 0 THEN FALSE
      ELSE 10 * SumMs(arr) > 18 * adaptTargetWorkMs * Len(arr)

\* the balancer with `avg > adaptTargetWorkMs` as its second test: no dead band
adaptCoreParameters_noDeadBand(samples, c) ==
  LET c1 == IF avgBelowTarget(samples) THEN Min(concurrencyMax, c + 1)
            ELSE IF SumMs(adaptArr(samples)) > adaptTargetWorkMs * Len(adaptArr(samples))
                   THEN Max(concurrencyMin, c - 1)
            ELSE c
  IN  Max(concurrencyMin, Min(concurrencyMax, c1))

adaptCoreParameters(samples, c) ==
  LET c1 == IF avgBelowTarget(samples) THEN Min(concurrencyMax, c + 1)
            ELSE IF avgAboveBand(samples) THEN Max(concurrencyMin, c - 1)
            ELSE c
  IN  Max(concurrencyMin, Min(concurrencyMax, c1))   \* line 281; c1 is an integer

\* The names of the videos are arbitrary: a video is named at its first discovery,
\* in the order of ItemOrder.  A discovered video is queued or was launched.
ItemOrder == <<"v1", "v2">>
Discoveries ==
  {s \in DocumentOrders :
     \A k \in 1..Len(s), r \in 1..Len(ItemOrder) :
        (s[k] = ItemOrder[r]) =>
          \A r0 \in 1..(r - 1) :
             \/ ItemOrder[r0] \in Range(queue)
             \/ launchCount[ItemOrder[r0]] > 0
             \/ \E j \in 1..(k - 1) : s[j] = ItemOrder[r0]}

\* ---- scheduleTaskDrain (lines 130-136) ------------------------------------
\* scheduleTaskDrain without the test of line 131
scheduleTaskDrain_noGuard ==
  /\ taskScheduled' = TRUE
  /\ pendingDrains' = pendingDrains + 1

scheduleTaskDrain ==
  /\ taskScheduled' = TRUE
  /\ pendingDrains' = IF taskScheduled THEN pendingDrains ELSE pendingDrains + 1

\* ---- enqueueNewVideos (lines 246-259) -------------------------------------
\* the loop without the test of line 251
RECURSIVE enqueueLoop_noDoneCheck(_, _)
enqueueLoop_noDoneCheck(q, vids) ==
  IF vids = <<>> THEN q
  ELSE LET v == Head(vids)
       IN  IF v \notin Range(q) THEN enqueueLoop_noDoneCheck(Append(q, v), Tail(vids))
           ELSE enqueueLoop_noDoneCheck(q, Tail(vids))

\* the for loop of lines 249-254 over vids
RECURSIVE enqueueLoop(_, _)
enqueueLoop(q, vids) ==
  IF vids = <<>> THEN q
  ELSE LET v == Head(vids)
       IN  IF fsim_done[v] THEN enqueueLoop(q, Tail(vids))
           ELSE IF v \notin Range(q) THEN enqueueLoop(Append(q, v), Tail(vids))
           ELSE enqueueLoop(q, Tail(vids))

\* line 256 without the doneCount term
enqueueSeen_withoutDone(q) == Max(seenCount, Len(q) + processingCount)

\* line 256
enqueueSeen(q) == Max(seenCount, Len(q) + processingCount + doneCount)

enqueueNewVideos(vids) ==
  LET q == enqueueLoop(queue, vids)
  IN  /\ pushes + (Len(q) - Len(queue)) <= MaxPushes
      /\ pushes' = pushes + (Len(q) - Len(queue))
      /\ rediscovered' = (rediscovered \/ \E k \in 1..Len(vids) : fsim_done[vids[k]])
      /\ queue' = q
      /\ seenCount' = enqueueSeen(q)
      /\ IF Len(q) > 0 THEN scheduleTaskDrain
                       ELSE UNCHANGED <<taskScheduled, pendingDrains>>

\* no drainTaskBatch microtask and no .finally callback is queued: the event loop
\* can start the next timer callback (lines 223, 302, 352, 354 use timers)
MicrotasksEmpty == pendingDrains = 0 /\ \A v \in Items : settled[v] = 0

\* ---- installObserver (lines 286-298) --------------------------------------
\* ok = FALSE: the MutationObserver constructor throws and state.observer keeps its value
installObserver(ok) == IF ok THEN "attached" ELSE observer

\* ---- initial state: the `state` literal, lines 31-47 ----------------------
Init ==
  /\ concurrencyMax \in {concurrencyMaxOf(hc) : hc \in 0..MaxHW}
  /\ booted = FALSE
  /\ running = TRUE
  /\ concurrency = concurrencyInit
  /\ queue = <<>>
  /\ processingCount = 0
  /\ doneCount = 0
  /\ seenCount = 0
  /\ readySuccess = 0
  /\ readyFailure = 0
  /\ lastWorkSamples = <<>>
  /\ observer = "none"
  /\ healTimer = FALSE
  /\ taskScheduled = FALSE
  /\ pendingDrains = 0
  /\ fsim_done = [i \in Items |-> FALSE]
  /\ nearEnd = [i \in Items |-> FALSE]
  /\ yielded = [i \in Items |-> 0]
  /\ settled = [i \in Items |-> 0]
  /\ launchCount = [i \in Items |-> 0]
  /\ doneIncs = [i \in Items |-> 0]
  /\ pushes = 0
  /\ skippedDone = 0
  /\ rediscovered = FALSE
  /\ lastPath = [i \in Items |-> NoPath]
  /\ shape = [i \in Items |-> "any"]
  /\ statusRead = <<>>

\* ---- bootstrap (lines 347-354) --------------------------------------------
Bootstrap ==
  /\ ~booted
  /\ booted' = TRUE
  /\ \E ok \in BOOLEAN : observer' = installObserver(ok)
  /\ healTimer' = TRUE
  /\ \E vids \in Discoveries : enqueueNewVideos(vids)
  /\ UNCHANGED <<concurrencyMax, running, concurrency, processingCount,
                 doneCount, readySuccess, readyFailure, lastWorkSamples,
                 fsim_done, nearEnd, yielded, settled, launchCount, doneIncs,
                 skippedDone, lastPath, shape, statusRead>>

\* the MutationObserver callback with added nodes (lines 289-295)
MutationSignal ==
  /\ booted
  /\ observer = "attached"
  /\ \E vids \in Discoveries : enqueueNewVideos(vids)
  /\ UNCHANGED <<concurrencyMax, booted, running, concurrency, processingCount,
                 doneCount, readySuccess, readyFailure, lastWorkSamples,
                 observer, healTimer, fsim_done, nearEnd, yielded, settled,
                 launchCount, doneIncs, skippedDone, lastPath, shape,
                 statusRead>>

\* the periodicEnq interval callback (line 352).  Once state.running is false the
\* callback only clears its own interval, which changes nothing of `state`.
PeriodicEnqTick ==
  /\ booted
  /\ MicrotasksEmpty
  /\ IF ~running
       THEN UNCHANGED <<queue, seenCount, taskScheduled, pendingDrains, pushes,
                        rediscovered>>
       ELSE \E vids \in Discoveries : enqueueNewVideos(vids)
  /\ UNCHANGED <<concurrencyMax, booted, running, concurrency, processingCount,
                 doneCount, readySuccess, readyFailure, lastWorkSamples,
                 observer, healTimer, fsim_done, nearEnd, yielded, settled,
                 launchCount, doneIncs, skippedDone, lastPath, shape,
                 statusRead>>

\* the periodicDrain interval callback (line 354); after a stop as for periodicEnq
PeriodicDrainTick ==
  /\ booted
  /\ MicrotasksEmpty
  /\ IF running /\ Len(queue) > 0
       THEN scheduleTaskDrain
       ELSE UNCHANGED <<taskScheduled, pendingDrains>>
  /\ UNCHANGED <<concurrencyMax, booted, running, concurrency, queue,
                 processingCount, doneCount, seenCount, readySuccess,
                 readyFailure, lastWorkSamples, observer, healTimer, fsim_done,
                 nearEnd, yielded, settled, launchCount, doneIncs, pushes,
                 skippedDone, rediscovered, lastPath, shape, statusRead>>

\* the self-heal interval callback (lines 302-307)
SelfHealTick ==
  /\ healTimer
  /\ MicrotasksEmpty
  /\ IF running /\ observer = "none"
       THEN \E ok \in BOOLEAN : observer' = installObserver(ok)
       ELSE observer' = observer
  /\ UNCHANGED <<concurrencyMax, booted, running, concurrency, queue,
                 processingCount, doneCount, seenCount, readySuccess,
                 readyFailure, lastWorkSamples, healTimer, taskScheduled,
                 pendingDrains, fsim_done, nearEnd, yielded, settled,
                 launchCount, doneIncs, pushes, skippedDone, rediscovered,
                 lastPath, shape, statusRead>>

\* stopAll without line 316
stopAll_keepQueue ==
  /\ booted
  /\ running' = FALSE
  /\ observer' = "none"
  /\ healTimer' = FALSE
  /\ UNCHANGED <<concurrencyMax, booted, concurrency, queue, processingCount,
                 doneCount, seenCount, readySuccess, readyFailure,
                 lastWorkSamples, taskScheduled, pendingDrains, fsim_done,
                 nearEnd, yielded, settled, launchCount, doneIncs, pushes,
                 skippedDone, rediscovered, lastPath, shape, statusRead>>

\* ---- stopAll (lines 311-318) ----------------------------------------------
stopAll ==
  /\ booted
  /\ running' = FALSE
  /\ observer' = "none"
  /\ healTimer' = FALSE
  /\ queue' = <<>>
  /\ UNCHANGED <<concurrencyMax, booted, concurrency, processingCount,
                 doneCount, seenCount, readySuccess, readyFailure,
                 lastWorkSamples, taskScheduled, pendingDrains, fsim_done,
                 nearEnd, yielded, settled, launchCount, doneIncs, pushes,
                 skippedDone, rediscovered, lastPath, shape, statusRead>>

\* ---- the clock advances: every retained sample ages -----------------------
Tick ==
  /\ \E k \in 1..Len(lastWorkSamples) : lastWorkSamples[k].age <= adaptWindowMs
  /\ lastWorkSamples' = [k \in 1..Len(lastWorkSamples) |->
                           [lastWorkSamples[k] EXCEPT !.age = @ + TickMs]]
  /\ UNCHANGED <<concurrencyMax, booted, running, concurrency, queue,
                 processingCount, doneCount, seenCount, readySuccess,
                 readyFailure, observer, healTimer, taskScheduled,
                 pendingDrains, fsim_done, nearEnd, yielded, settled,
                 launchCount, doneIncs, pushes, skippedDone, rediscovered,
                 lastPath, shape, statusRead>>

\* ---- processOneHybrid (lines 173-243) -------------------------------------
\* The part of `state` and of the items that one run-to-completion span of
\* drainTaskBatch / processOneHybrid reads and writes, as a record.
Snapshot ==
  [q |-> queue, pc |-> processingCount, done |-> fsim_done, nearEnd |-> nearEnd,
   rs |-> readySuccess, rf |-> readyFailure, dc |-> doneCount,
   samples |-> lastWorkSamples, yielded |-> yielded, settled |-> settled,
   launchCount |-> launchCount, doneIncs |-> doneIncs, skipped |-> skippedDone,
   path |-> lastPath]

\* the finally block, lines 235-242, then the promise settles
sampleAndSettle(s, v) ==
  {[s EXCEPT !.samples = PushSample(s.samples, took),
             !.settled[v] = @ + 1] : took \in WorkMs}

\* lines 226-231: video.__fsim_done = true; state.doneCount++
markDone(s, v) ==
  [s EXCEPT !.done[v] = TRUE, !.dc = @ + 1, !.doneIncs[v] = @ + 1]

\* lines 226-242.  The write of __fsim_done may throw: the outer catch (line 232)
\* then returns false with the item not marked and doneCount not incremented.
finishItem(s, v) ==
  sampleAndSettle(markDone(s, v), v) \cup sampleAndSettle(s, v)

\* the suspension at line 223
yieldItem(s, v) == [s EXCEPT !.yielded[v] = @ + 1]

\* the loop with `while (!done)` as its condition: state.running is not read
skipLoop_ignoreRunning(s, v) ==
  IF shape[v] = "endless"
    THEN {yieldItem([s EXCEPT !.nearEnd[v] = TRUE], v)}
  ELSE finishItem(s, v)
       \cup {yieldItem([s EXCEPT !.nearEnd[v] = TRUE], v)}
       \cup (IF s.nearEnd[v]
               THEN finishItem(s, v)
               ELSE {yieldItem([s EXCEPT !.nearEnd[v] = TRUE], v)})

\* One evaluation of the loop of lines 206-224 from its condition, `done` being
\* false: the outcomes of the duration read and of the currentTime write.
skipLoop(s, v) ==
  IF ~running THEN finishItem(s, v)
  ELSE IF shape[v] = "endless"
    THEN \* duration unknown, the write returns: currentTime += step, then yield
         {yieldItem([s EXCEPT !.nearEnd[v] = TRUE], v)}
  ELSE \* duration read or currentTime read/write throws: catch(e){ break; }
       finishItem(s, v)
       \cup \* duration unknown: currentTime += step, then yield
       {yieldItem([s EXCEPT !.nearEnd[v] = TRUE], v)}
       \cup \* duration known
       (IF s.nearEnd[v]
          THEN finishItem(s, v)           \* remain <= 0.5: done = true; break
          ELSE {yieldItem([s EXCEPT !.nearEnd[v] = TRUE], v)})

\* the else branch of lines 200-225, entered from line 183
incremental(s, v) == skipLoop([s EXCEPT !.path[v].loop = TRUE], v)

\* the instant branch, lines 183-199
instantJump(s, v) ==
  {\* currentTime set, readySuccess++ (line 195)
   [s EXCEPT !.nearEnd[v] = TRUE, !.rs = @ + 1],
   \* the write throws: readyFailure++ (line 198), then on to line 226
   [s EXCEPT !.rf = @ + 1, !.path[v].instantFailed = TRUE]}

\* processOneHybrid(v) up to its first suspension or its return
processOneHybrid(s, v) ==
  IF shape[v] = "endless" THEN incremental(s, v)     \* never ready, reads return
  ELSE
  \* the readyState read throws: outer catch, then finally
  sampleAndSettle(s, v)
  \cup \* ready (readyState >= preferInstantReadyState, or not a number)
  (IF preferInstantRate(s.rs, s.rf)
     THEN UNION {finishItem(s1, v) : s1 \in instantJump(s, v)}
     ELSE incremental(s, v))
  \cup \* not ready
  incremental(s, v)

\* ---- drainTaskBatch (lines 138-170) ---------------------------------------
\* line 148-151: processingCount++, processed++, processOneHybrid(v)
launch(s, v) ==
  processOneHybrid([s EXCEPT !.pc = @ + 1, !.launchCount[v] = @ + 1,
                             !.path[v] = NoPath], v)

\* the loop taking with queue.pop(), from the tail
RECURSIVE drainLoop_lifo(_, _)
drainLoop_lifo(s, processed) ==
  IF Len(s.q) > 0 /\ s.pc < concurrency /\ processed < concurrency
    THEN LET v == s.q[Len(s.q)]
             s1 == [s EXCEPT !.q = SubSeq(s.q, 1, Len(s.q) - 1)]
         IN  IF s1.done[v]
               THEN drainLoop_lifo([s1 EXCEPT !.skipped = @ + 1], processed)
               ELSE UNION {drainLoop_lifo(s2, processed + 1) : s2 \in launch(s1, v)}
    ELSE {s}

\* the loop without the test `state.processingCount < state.concurrency`
RECURSIVE drainLoop_noInFlightTest(_, _)
drainLoop_noInFlightTest(s, processed) ==
  IF Len(s.q) > 0 /\ processed < concurrency
    THEN LET v == Head(s.q)
             s1 == [s EXCEPT !.q = Tail(s.q)]
         IN  IF s1.done[v]
               THEN drainLoop_noInFlightTest([s1 EXCEPT !.skipped = @ + 1],
                                             processed)
               ELSE UNION {drainLoop_noInFlightTest(s2, processed + 1) :
                             s2 \in launch(s1, v)}
    ELSE {s}

\* the while loop of lines 143-156; the set of states it can end in
RECURSIVE drainLoop(_, _)
drainLoop(s, processed) ==
  IF Len(s.q) > 0 /\ s.pc < concurrency /\ processed < concurrency
    THEN LET v == Head(s.q)
             s1 == [s EXCEPT !.q = Tail(s.q)]
         IN  IF s1.done[v] THEN drainLoop([s1 EXCEPT !.skipped = @ + 1], processed)
             ELSE UNION {drainLoop(s2, processed + 1) : s2 \in launch(s1, v)}
    ELSE {s}

\* the variables a Snapshot carries, except lastWorkSamples
Install(s) ==
  /\ queue' = s.q
  /\ processingCount' = s.pc
  /\ fsim_done' = s.done
  /\ nearEnd' = s.nearEnd
  /\ readySuccess' = s.rs
  /\ readyFailure' = s.rf
  /\ doneCount' = s.dc
  /\ yielded' = s.yielded
  /\ settled' = s.settled
  /\ launchCount' = s.launchCount
  /\ doneIncs' = s.doneIncs
  /\ skippedDone' = s.skipped
  /\ lastPath' = s.path

drainTaskBatch ==
  /\ pendingDrains > 0
  /\ pendingDrains' = pendingDrains - 1
  /\ \E s \in drainLoop(Snapshot, 0), work \in WorkMs :
       /\ Install(s)
       /\ lastWorkSamples' = PushSample(s.samples, work)
       /\ Len(lastWorkSamples') <= MaxSamples
       /\ concurrency' = adaptCoreParameters(lastWorkSamples', concurrency)
  /\ taskScheduled' = FALSE
  /\ UNCHANGED <<concurrencyMax, booted, running, seenCount, observer,
                 healTimer, pushes, rediscovered, shape, statusRead>>

\* the timer of line 223 fires and the loop of an item continues
Resume(v) ==
  /\ yielded[v] > 0
  /\ MicrotasksEmpty
  /\ \E s \in skipLoop([Snapshot EXCEPT !.yielded[v] = @ - 1], v) :
       /\ Install(s)
       /\ lastWorkSamples' = s.samples
       /\ Len(lastWorkSamples') <= MaxSamples
  /\ UNCHANGED <<concurrencyMax, booted, running, concurrency, seenCount,
                 observer, healTimer, taskScheduled, pendingDrains, pushes,
                 rediscovered, shape, statusRead>>

\* the .finally callback of lines 151-155
Completion(v) ==
  /\ settled[v] > 0
  /\ settled' = [settled EXCEPT ![v] = @ - 1]
  /\ lastPath' = [lastPath EXCEPT ![v] = NoPath]
  /\ processingCount' = Max(0, processingCount - 1)
  /\ IF Len(queue) > 0 THEN scheduleTaskDrain
                       ELSE UNCHANGED <<taskScheduled, pendingDrains>>
  /\ UNCHANGED <<concurrencyMax, booted, running, concurrency, queue,
                 doneCount, seenCount, readySuccess, readyFailure,
                 lastWorkSamples, observer, healTimer, fsim_done, nearEnd,
                 yielded, launchCount, doneIncs, pushes, skippedDone,
                 rediscovered, shape, statusRead>>

Next ==
  \/ Bootstrap
  \/ MutationSignal
  \/ PeriodicEnqTick
  \/ PeriodicDrainTick
  \/ SelfHealTick
  \/ stopAll
  \/ Tick
  \/ drainTaskBatch
  \/ \E v \in Items : Resume(v)
  \/ \E v \in Items : Completion(v)

Spec == Init /\ [][Next]_vars

\* ---- a later stretch of the same run -------------------------------------
\* The script has been running for a while.  Earlier videos, no longer in the
\* document, were launched and returned through the outer catch (line 232), so
\* doneCount, readySuccess and readyFailure are still 0; every activation ran the
\* balancer, so concurrency is anywhere in [concurrencyMin, concurrencyMax].  The
\* poll (line 352) has just found the videos of Items and queued them, which
\* scheduled an activation.  lastWorkSamples holds the sample of the latest
\* span, one of `samples`.  The history variables count from this state on.
InitLater(samples, shapes) ==
  /\ concurrencyMax \in {concurrencyMaxOf(hc) : hc \in 0..MaxHW}
  /\ booted = TRUE
  /\ running = TRUE
  /\ concurrency \in concurrencyMin..concurrencyMax
  /\ queue = ItemOrder
  /\ processingCount = 0
  /\ doneCount = 0
  /\ seenCount = Len(queue)
  /\ readySuccess = 0
  /\ readyFailure = 0
  /\ \E smp \in samples : lastWorkSamples = <<smp>>
  /\ observer = "attached"
  /\ healTimer = TRUE
  /\ taskScheduled = TRUE
  /\ pendingDrains = 1
  /\ fsim_done = [i \in Items |-> FALSE]
  /\ nearEnd = [i \in Items |-> FALSE]
  /\ yielded = [i \in Items |-> 0]
  /\ settled = [i \in Items |-> 0]
  /\ launchCount = [i \in Items |-> 0]
  /\ doneIncs = [i \in Items |-> 0]
  /\ pushes = Len(queue)
  /\ skippedDone = 0
  /\ rediscovered = FALSE
  /\ lastPath = [i \in Items |-> NoPath]
  /\ shape \in [Items -> shapes]
  /\ statusRead = <<>>

\* the latest activation is more than adaptWindowMs old
InitWarm == InitLater({[age |-> TickMs, ms |-> ms] : ms \in WorkMs}, Shapes)

NextWarm ==
  \/ MutationSignal
  \/ PeriodicEnqTick
  \/ PeriodicDrainTick
  \/ SelfHealTick
  \/ stopAll
  \/ Tick
  \/ drainTaskBatch
  \/ \E v \in Items : Resume(v)
  \/ \E v \in Items : Completion(v)

WarmSpec == InitWarm /\ [][NextWarm]_vars

\* Queued microtasks run and the clock advances.  A timer callback is a task:
\* it runs once the microtask queue has drained, which happens after every
\* task, so a callback that is due again and again does run.  Nothing makes the
\* page mutate or the operator call stop().
TaskFairness ==
  /\ WF_vars(drainTaskBatch)
  /\ WF_vars(Tick)
  /\ \A v \in Items : WF_vars(Completion(v)) /\ SF_vars(Resume(v))
  /\ SF_vars(PeriodicDrainTick)
  /\ SF_vars(SelfHealTick)

\* the same stretch on a page that adds no video any more: the observer stays
\* silent and the poll finds nothing new
NextQuiet ==
  \/ PeriodicDrainTick
  \/ SelfHealTick
  \/ stopAll
  \/ Tick
  \/ drainTaskBatch
  \/ \E v \in Items : Resume(v)
  \/ \E v \in Items : Completion(v)

FairQuietSpec == InitWarm /\ [][NextQuiet]_vars /\ TaskFairness

\* ---- the balancer and the status snapshot --------------------------------
\* status() (lines 319-329): the only state it reads that another read does not
\* cover is the sample array, averaged as it stands (line 327)
status ==
  /\ booted
  /\ statusRead' = lastWorkSamples
  /\ UNCHANGED <<concurrencyMax, booted, running, concurrency, queue,
                 processingCount, doneCount, seenCount, readySuccess,
                 readyFailure, lastWorkSamples, observer, healTimer,
                 taskScheduled, pendingDrains, fsim_done, nearEnd, yielded,
                 settled, launchCount, doneIncs, pushes, skippedDone,
                 rediscovered, lastPath, shape>>

\* The latest span ended just now and measured any duration: Math.round (line
\* 236) and a coarse performance.now() (line 162) give 0 for a short span.
InitCtl == InitLater({[age |-> 0, ms |-> ms] : ms \in {0} \cup WorkMs}, {"any"})

NextCtl ==
  \/ status
  \/ NextQuiet

CtlSpec == InitCtl /\ [][NextCtl]_vars

TypeOK ==
  /\ concurrency \in Nat
  /\ processingCount \in Nat
  /\ pendingDrains \in Nat

\* ---- properties -----------------------------------------------------------
InFlight(v) == yielded[v] + settled[v] > 0
Occurrences(v, q) == Cardinality({k \in 1..Len(q) : q[k] = v})
DrainStep == pendingDrains' = pendingDrains - 1

\* C1: each distinct item is launched into processOneHybrid at most once and
\* doneCount is incremented at most once per item, for every interleaving of
\* discovery, activation and completion.
C1_AtMostOnce ==
  \A v \in Items : launchCount[v] <= 1 /\ doneIncs[v] <= 1

\* C2: in every reachable state processingCount <= concurrency, also right after
\* adaptCoreParameters lowered concurrency while items are in flight.
C2_ProcessingWithinConcurrency == processingCount <= concurrency

\* C3: in every reachable state, the initial one included, concurrency lies in
\* [concurrencyMin, concurrencyMax], for every concurrencyMax the program can start with.
C3_ConcurrencyInRange ==
  concurrencyMin <= concurrency /\ concurrency <= concurrencyMax

C5_SettledMarkedDone ==
  \A v \in Items : settled[v] > 0 => fsim_done[v]

\* C6: registry exclusivity, in the form "enqueueNewVideos is a no-op for an item
\* already pending, in flight or done": the queue never holds an item twice, and a
\* queued item is neither in flight nor marked done.
C6_RegistryExclusive ==
  \A v \in Items :
    /\ Occurrences(v, queue) <= 1
    /\ ~(v \in Range(queue) /\ InFlight(v))
    /\ ~(v \in Range(queue) /\ fsim_done[v])

\* C7: in every reachable state seenCount >= queue.length + processingCount + doneCount.
C7_SeenCoversAll == seenCount >= Len(queue) + processingCount + doneCount

\* C8: in every reachable state doneCount <= seenCount, stop included.
C8_DoneWithinSeen == doneCount <= seenCount

\* every seen item is done, after a stop
C8_Witness == ~running /\ doneCount >= 2 /\ doneCount = seenCount

\* adaptTargetWorkMs < avg <= 1.8 * adaptTargetWorkMs, avg being the mean of the
\* samples the balancer averages
C9_avgInBand(samples) ==
  LET arr == SelectSeq(samples, LAMBDA s : s.ms > 0)
  IN  /\ Len(arr) > 0
      /\ 12 * Len(arr) < SumMs(arr)
      /\ 10 * SumMs(arr) <= 216 * Len(arr)

C10_StopIsFinal ==
  [][/\ ~running => ~running'
     /\ ~running' => queue' = <<>>
     /\ ~running => /\ launchCount' = launchCount
                    /\ processingCount' <= processingCount]_vars

\* an activation that was scheduled before the stop has run after it, launching nothing
C10_Witness ==
  /\ ~running
  /\ pushes > 0
  /\ \A v \in Items : launchCount[v] = 0
  /\ Len(lastWorkSamples) > 0
  /\ pendingDrains = 0

\* C11: when an item is ready, the success rate is above 0.4 and the instant
\* attempt raises, readyFailure is incremented and the incremental strategy is
\* then run for the same item in the same call, before the item is marked done.
C11_InstantFailureFallsBack ==
  \A v \in Items : lastPath[v].instantFailed => lastPath[v].loop

\* C12: while the scheduler keeps running, every item launched into
\* processOneHybrid eventually has its call returned and its processingCount
\* slot released, under fair scheduling of the yield continuations, for every
\* item shape, the endless one included.  (That a returned call has marked its
\* item done is C5.)
C12_ProcessingTerminates ==
  \A v \in Items : InFlight(v) ~> (~running \/ ~InFlight(v))

IsPrefix(a, b) == Len(a) <= Len(b) /\ SubSeq(b, 1, Len(a)) = a
IsSuffix(a, b) == Len(a) <= Len(b) /\ SubSeq(b, Len(b) - Len(a) + 1, Len(b)) = a
Launched == {v \in Items : launchCount'[v] > launchCount[v]}

RECURSIVE SumOver(_, _)
SumOver(f, S) ==
  IF S = {} THEN 0 ELSE LET x == CHOOSE y \in S : TRUE IN f[x] + SumOver(f, S \ {x})

\* C15: items are appended at the tail of the queue and taken from its head: a
\* step that launches an item takes a prefix of the queue that holds that item
\* and leaves the rest in place, so of two queued items the one appended first
\* is launched in the same activation or an earlier one.
C15_FifoTakeOrder ==
  [][/\ IsPrefix(queue, queue') \/ IsSuffix(queue', queue)
     /\ Launched # {} =>
          /\ IsSuffix(queue', queue)
          /\ Launched \subseteq
               Range(SubSeq(queue, 1, Len(queue) - Len(queue')))]_vars

\* an activation ran with v1 queued ahead of v2: v1 is launched, v2 is left
C15_Witness ==
  /\ running
  /\ queue = <<"v2">>
  /\ launchCount = [i \in Items |-> IF i = "v1" THEN 1 ELSE 0]
  /\ pendingDrains = 0

\* C16: one activation launches at most max(0, concurrency - processingCount)
\* items, both read at its start, and never more than concurrency; what it does
\* not take stays queued in the original order, so at least the queue length
\* minus the budget (and minus the done items it discards) stays pending.
C16_ActivationBudget ==
  [][DrainStep =>
       LET n == SumOver(launchCount', Items) - SumOver(launchCount, Items)
       IN  /\ n <= Max(0, concurrency - processingCount)
           /\ n <= concurrency
           /\ IsSuffix(queue', queue)
           /\ Len(queue') = Len(queue) - n - (skippedDone' - skippedDone)]_vars

\* two items were queued and concurrency is 1: one item was launched and is in
\* flight, the other was left queued by an activation
C16_Witness ==
  /\ running
  /\ Len(queue) = 1
  /\ SumOver(launchCount, Items) = 1
  /\ processingCount = 1
  /\ concurrency = 1
  /\ pushes = 2

\* the controller step as specified: avg is the mean of all retained samples
specController(samples, c) ==
  LET n == Len(samples)
      sum == SumMs(samples)
  IN  IF n = 0 \/ sum < adaptTargetWorkMs * n THEN Min(concurrencyMax, c + 1)
      ELSE IF 10 * sum > 18 * adaptTargetWorkMs * n THEN Max(concurrencyMin, c - 1)
      ELSE c

\* C17: for every retained samples, zero durations included, and concurrency in
\* [concurrencyMin, concurrencyMax], adaptCoreParameters leaves min(max, c+1) if
\* the mean of all retained samples is below adaptTargetWorkMs, max(min, c-1) if
\* it is above 1.8 * adaptTargetWorkMs, and c otherwise.
C17_ControllerStep ==
  [][(DrainStep /\ concurrencyMin <= concurrency /\ concurrency <= concurrencyMax)
       => concurrency' = specController(lastWorkSamples', concurrency)]_vars

\* C18: at every read of the sample array, by the balancer at the end of an
\* activation and by status(), every sample read is at most adaptWindowMs old.
C18_WindowAtReads ==
  [][/\ DrainStep =>
          \A k \in 1..Len(lastWorkSamples') :
             lastWorkSamples'[k].age <= adaptWindowMs
     /\ \A k \in 1..Len(statusRead') : statusRead'[k].age <= adaptWindowMs]_vars

\* C13: in every reachable state at most one drainTaskBatch activation is
\* pending and taskScheduled is true exactly when one is pending, so triggers
\* issued while an activation is pending add no activation.
C13_OneActivationPending ==
  /\ pendingDrains \in {0, 1}
  /\ taskScheduled <=> (pendingDrains = 1)

\* v2 was queued by an enqueueNewVideos call that ran while the call on v1 had
\* settled and its .finally callback had not run (hence seenCount = 3), which
\* scheduled an activation; the .finally callback of v1 then found the queue
\* non-empty and triggered again; no activation has run since (v2 is still queued)
C13_Witness ==
  /\ pendingDrains = 1
  /\ taskScheduled
  /\ seenCount = 3
  /\ queue = <<"v2">>
  /\ launchCount = [i \in Items |-> IF i = "v1" THEN 1 ELSE 0]
  /\ fsim_done["v1"]
  /\ settled["v1"] = 0
  /\ processingCount = 0

C20_NoStrandedWork ==
  \A v \in Items :
    (running /\ v \in Range(queue)) ~> (~running \/ v \notin Range(queue))
====
